---- MODULE Spec2Model ----
(***************************************************************************)
(* A model of the MCP server of puneetverma0711/mcp-poc: the prompt        *)
(* get-issues-by-state and the tools getazzureIssuesid,                    *)
(* getIssuesDetailsById, postReportToTeams and api-request, the two files  *)
(* they share (src/data/azzureissues.json and work_item_report.html) and   *)
(* the upstream HTTP responses they branch on.                             *)
(*                                                                         *)
(* Text is a sequence of tokens (strings).  A token is a piece of text     *)
(* the code never looks inside: a word, a whitespace character, an HTML    *)
(* tag, a JSON delimiter.  Template literals are concatenations of token   *)
(* sequences, String.trim strips whitespace tokens from both ends,         *)
(* cheerio's parser cannot tell a tag of the template from a tag that was  *)
(* interpolated with a field value.                                        *)
(***************************************************************************)
EXTENDS Integers, Sequences, FiniteSets, TLC

VARIABLES
    revision,     \* which revision of the server runs: "server.ts" or "part_001"
    snapshotFile, \* src/data/azzureissues.json: [exists, data]
    reportFile,   \* work_item_report.html: [exists, data]
    tool,         \* tool[i]: the handler invocation i runs ("none" before it starts)
    pc,           \* pc[i]: the await invocation i is suspended at
    arg,          \* arg[i]: the state argument of get-issues-by-state
    fetched,      \* fetched[i]: workItemsDetails.value of invocation i
    requests,     \* requests[i]: the outbound HTTP requests i issued, with their responses
    result,       \* result[i]: the text of the payload i returned, <<>> before
    thrown,       \* thrown[i]: an error escaped handler i
    observed,     \* observed[i]: what fs.readFile gave invocation i
    pin,          \* input of the pure-function specifications
    pout          \* output of the pure-function specifications

vars == <<revision, snapshotFile, reportFile, tool, pc, arg, fetched, requests,
          result, thrown, observed, pin, pout>>

\* ---------------------------------------------------------------- bounds

MaxInv == 2        \* handler invocations in one run
MaxId == 2         \* work-item ids the upstream knows
MaxSnapshot == 3   \* items of a snapshot given to get-issues-by-state
MaxRows == 2       \* data rows of an HTML report given to postReportToTeams

Invocations == 1..MaxInv

\* ---------------------------------------------------------------- text

Whitespace == {" ", "\n"}

\* Tags the table parser does not select: their text content stays in the cell.
InlineTags == {"<b>", "</b>"}

RECURSIVE TrimStart(_)
TrimStart(s) ==
    IF s # <<>> /\ Head(s) \in Whitespace THEN TrimStart(Tail(s)) ELSE s

RECURSIVE TrimEnd(_)
TrimEnd(s) ==
    IF s # <<>> /\ s[Len(s)] \in Whitespace
    THEN TrimEnd(SubSeq(s, 1, Len(s) - 1)) ELSE s

\* String.prototype.trim
Trim(s) == TrimEnd(TrimStart(s))

RECURSIVE Flatten(_)
Flatten(ss) == IF ss = <<>> THEN <<>> ELSE Head(ss) \o Flatten(Tail(ss))

\* Array.prototype.join
RECURSIVE Join(_, _)
Join(ss, sep) ==
    IF ss = <<>> THEN <<>>
    ELSE IF Len(ss) = 1 THEN ss[1]
    ELSE ss[1] \o <<sep>> \o Join(Tail(ss), sep)

\* Date.prototype.toLocaleString of new Date(d), in the en-US locale
ToLocaleString(d) ==
    CASE d = "2024-01-05T10:00:00Z" -> "1/5/2024, 10:00:00 AM"
      [] d = "2024-02-07T15:30:00Z" -> "2/7/2024, 3:30:00 PM"
      [] OTHER -> "Invalid Date"

\* ---------------------------------------------------------------- work items

Person(name) == [present |-> TRUE, displayName |-> name]
Nobody == [present |-> FALSE, displayName |-> <<>>]

\* item.fields of a work item of the batch response
WorkItem(id, title, state, who, created, changed, tags) ==
    [System_Id |-> id, System_Title |-> title, System_State |-> state,
     System_AssignedTo |-> who, System_CreatedDate |-> created,
     System_ChangedDate |-> changed, System_Tags |-> tags]

NoItem == WorkItem(0, <<>>, <<>>, Nobody, "", "", <<>>)

\* What the upstream holds under each id.
Upstream(id) ==
    CASE id = 1 -> WorkItem(1, <<"Foo">>, <<"Done">>, Person(<<"Ann">>),
                            "2024-01-05T10:00:00Z", "2024-02-07T15:30:00Z", <<"ui">>)
      [] id = 2 -> WorkItem(2, <<"List", "<b>", "x">>, <<"To Do">>, Nobody,
                            "2024-02-07T15:30:00Z", "2024-02-07T15:30:00Z", <<>>)
      [] OTHER -> WorkItem(id, <<"Bar">>, <<"Doing">>, Person(<<"Bob">>),
                            "2024-01-05T10:00:00Z", "2024-01-05T10:00:00Z", <<>>)

\* Sequences over S of length n
RECURSIVE SeqsOfLen(_, _)
SeqsOfLen(S, n) ==
    IF n = 0 THEN {<<>>}
    ELSE {Append(s, x) : s \in SeqsOfLen(S, n - 1), x \in S}

SeqsUpTo(S, n) == UNION {SeqsOfLen(S, k) : k \in 0..n}

\* The id lists a WIQL query can answer with: the project holds the issues 1..n,
\* and ORDER BY [System.ChangedDate] DESC lists the one changed last first.
IdLists == {[k \in 1..n |-> n + 1 - k] : n \in 0..MaxId}

\* ---------------------------------------------------------------- JSON files

Chunk(kind, item) == [kind |-> kind, item |-> item]

\* JSON.stringify(items, null, 2): "[", the items, "]"
Stringify(items) ==
    <<Chunk("[", NoItem)>>
        \o [k \in 1..Len(items) |-> Chunk("item", items[k])]
        \o <<Chunk("]", NoItem)>>

\* JSON.parse succeeds on exactly the texts JSON.stringify writes
IsJsonArray(data) ==
    /\ Len(data) >= 2
    /\ data[1].kind = "["
    /\ data[Len(data)].kind = "]"
    /\ \A k \in 2..(Len(data) - 1) : data[k].kind = "item"

JsonParse(data) == [k \in 1..(Len(data) - 2) |-> data[k + 1].item]

NoFile == [exists |-> FALSE, data |-> <<>>]
File(data) == [exists |-> TRUE, data |-> data]

\* ---------------------------------------------------------------- result texts

\* `${error}` of an error thrown with new Error(message)
ErrorText(message) == <<"Error: ">> \o message

\* `${error}` of what fs.readFile rejects with when the file is missing
ENOENT(path) == ErrorText(<<"ENOENT: no such file or directory, open ", path>>)

\* `${error}` of what fs.writeFile rejects with
EIO(path) == ErrorText(<<"EIO: i/o error, write ", path>>)

\* `${error}` of what JSON.parse and Response.json throw on a text that is not JSON
JsonSyntaxError == <<"SyntaxError: ", "Unexpected end of JSON input">>

\* `${error}` of reading a property of undefined
JsonTypeError == <<"TypeError: ", "Cannot read properties of undefined">>

\* `${error}` of what fetch rejects with
NetworkError == <<"TypeError: ", "fetch failed">>

\* An error leaves the handler: no catch block answers it.
Rethrow(error) == [text |-> <<>>, thrown |-> TRUE]

\* catch (error) { return ... text: `Operation failed: ${error}` }: the catch block
\* of the prompt and of every tool but api-request
Catch(error) == [text |-> <<"Operation failed: ">> \o error, thrown |-> FALSE]

\* catch (error) { return ... text: `API request failed: ${error}` }
CatchApi(error) == [text |-> <<"API request failed: ">> \o error, thrown |-> FALSE]

\* new Error(`${label}${response.status} ${await response.text()}`)
UpstreamError(label, status, body) == ErrorText(<<label, ToString(status), " ", body>>)

\* ---------------------------------------------------------------- get-issues-by-state

\* A filter that trims both sides before it compares.
RECURSIVE FilterLoose(_, _)
FilterLoose(issues, state) ==
    IF issues = <<>> THEN <<>>
    ELSE IF Trim(Head(issues).System_State) = Trim(state)
         THEN <<Head(issues)>> \o FilterLoose(Tail(issues), state)
         ELSE FilterLoose(Tail(issues), state)

\* issues.filter(issue => issue.fields["System.State"] === state)
RECURSIVE FilterByState(_, _)
FilterByState(issues, state) ==
    IF issues = <<>> THEN <<>>
    ELSE IF Head(issues).System_State = state
         THEN <<Head(issues)>> \o FilterByState(Tail(issues), state)
         ELSE FilterByState(Tail(issues), state)

\* filteredIssues.map(issue => `- ${issue.fields["System.Title"]}`).join("\n")
IssueTitles(filteredIssues) ==
    Join([k \in 1..Len(filteredIssues) |-> <<"- ">> \o filteredIssues[k].System_Title],
         "\n")

\* `Issues in state "${state}":\n${issueTitles}`
ListingHeader(state) == <<"Issues in state \"">> \o state \o <<"\":", "\n">>

\* fs.readFile and JSON.parse both succeed
Loads(file) == file.exists /\ IsJsonArray(file.data)

\* what fs.readFile or JSON.parse throws
LoadError(file) ==
    IF ~file.exists THEN ENOENT("src/data/azzureissues.json") ELSE JsonSyntaxError

\* The prompt handler from what fs.readFile gave it: the text of its one message.
GetIssuesByState(file, state) ==
    IF Loads(file)
    THEN ListingHeader(state) \o IssueTitles(FilterByState(JsonParse(file.data), state))
    ELSE Catch(LoadError(file)).text

\* ---------------------------------------------------------------- the HTML report

\* item.fields["System.AssignedTo"]?.displayName || "Unassigned"
AssignedTo(item) ==
    IF item.System_AssignedTo.present /\ item.System_AssignedTo.displayName # <<>>
    THEN item.System_AssignedTo.displayName
    ELSE <<"Unassigned">>

Th(text) == <<"\n", "<th>">> \o text \o <<"</th>">>
Td(text) == <<"\n", "<td>">> \o text \o <<"</td>">>

ReportHeaders ==
    << <<"ID">>, <<"Title">>, <<"State">>, <<"Assigned To">>, <<"Created Date">>,
       <<"Changed Date">>, <<"Tags">> >>

\* the cells of one item, as the template interpolates them
ReportCells(item) ==
    << <<ToString(item.System_Id)>>, item.System_Title, item.System_State,
       AssignedTo(item), <<ToLocaleString(item.System_CreatedDate)>>,
       <<ToLocaleString(item.System_ChangedDate)>>, item.System_Tags >>

\* the <tr> the loop appends for one item
ReportRow(item) ==
    <<"\n", "<tr>">>
        \o Flatten([k \in 1..7 |-> Td(ReportCells(item)[k])])
        \o <<"\n", "</tr>">>

\* htmlReport: the head, the header row, one row per item, the tail
RenderHtml(items) ==
    <<"\n", "<html>", "<h1>", "Azure DevOps Work Item Report", "</h1>", "\n",
      "<table>", "\n", "<tr>">>
        \o Flatten([k \in 1..7 |-> Th(ReportHeaders[k])])
        \o <<"\n", "</tr>">>
        \o Flatten([k \in 1..Len(items) |-> ReportRow(items[k])])
        \o <<"\n", "</table>", "\n", "</html>">>

\* ---------------------------------------------------------------- the table parser

Cell(tag, text) == [tag |-> tag, text |-> text]

ScanStart ==
    [inTable |-> FALSE, inRow |-> FALSE, cell |-> "", text |-> <<>>,
     row |-> <<>>, trs |-> <<>>]

\* cheerio.load: one token of the document, read in state st
ScanToken(st, tok) ==
    CASE tok = "<table>" -> [st EXCEPT !.inTable = TRUE]
      [] tok = "</table>" -> [st EXCEPT !.inTable = FALSE]
      [] tok = "<tr>" /\ st.inTable -> [st EXCEPT !.inRow = TRUE, !.row = <<>>]
      [] tok = "</tr>" /\ st.inRow ->
            [st EXCEPT !.inRow = FALSE, !.trs = Append(st.trs, st.row), !.row = <<>>]
      [] tok \in {"<th>", "<td>"} /\ st.inRow /\ st.cell = "" ->
            [st EXCEPT !.cell = IF tok = "<th>" THEN "th" ELSE "td", !.text = <<>>]
      [] tok \in {"</th>", "</td>"} /\ st.cell # "" ->
            [st EXCEPT !.cell = "", !.text = <<>>,
                       !.row = Append(st.row, Cell(st.cell, st.text))]
      [] tok \in InlineTags -> st
      [] OTHER -> IF st.cell # "" THEN [st EXCEPT !.text = Append(st.text, tok)] ELSE st

\* The tokens of the document read in order from state st (the first half, then
\* the second half from the state the first half ends in).
RECURSIVE Scan(_, _)
Scan(st, doc) ==
    IF doc = <<>> THEN st
    ELSE IF Len(doc) = 1 THEN ScanToken(st, doc[1])
    ELSE LET half == Len(doc) \div 2
             mid == Scan(st, SubSeq(doc, 1, half))
         IN  IF mid.inTable \in BOOLEAN
             THEN Scan(mid, SubSeq(doc, half + 1, Len(doc)))
             ELSE mid

\* $("table tr"): the rows of the document, each the cells it holds
TableRows(html) == Scan(ScanStart, html).trs

\* .find(tag).each((_, el) => out.push($(el).text().trim()))
CellTexts(tr, tag) ==
    LET cells == SelectSeq(tr, LAMBDA c : c.tag = tag)
    IN  [k \in 1..Len(cells) |-> Trim(cells[k].text)]

\* $("table tr").first().find("th")
ParseHeaders(html) ==
    LET trs == TableRows(html) IN IF trs = <<>> THEN <<>> ELSE CellTexts(trs[1], "th")

\* $("table tr").slice(1), each row its td texts
ParseRows(html) ==
    LET trs == TableRows(html)
    IN  [k \in 1..(IF trs = <<>> THEN 0 ELSE Len(trs) - 1) |-> CellTexts(trs[k + 1], "td")]

\* ---------------------------------------------------------------- the adaptive card

TextBlock(text) == [type |-> "TextBlock", text |-> text, columns |-> <<>>]

\* a ColumnSet, each column one stretch-width TextBlock: the texts of the columns
ColumnSet(texts) == [type |-> "ColumnSet", text |-> <<>>, columns |-> texts]

\* A header cell left as it is.
Plain(h) == h

\* text: `**${h}**`
Bold(h) == <<"**">> \o h \o <<"**">>

\* text: cell || "-"
CellOrDash(cell) == IF cell = <<>> THEN <<"-">> ELSE cell

\* cardBody: the header column-set, then one column-set per row
CardBody(headers, rows) ==
    <<ColumnSet([k \in 1..Len(headers) |-> Bold(headers[k])])>>
        \o [r \in 1..Len(rows) |->
               ColumnSet([k \in 1..Len(rows[r]) |-> CellOrDash(rows[r][k])])]

\* adaptiveCard.attachments[0].content.body
AdaptiveCardBody(html, now) ==
    <<TextBlock(<<"Azure DevOps Work Item Report">>),
      TextBlock(<<"Generated on ", ToLocaleString(now)>>)>>
        \o CardBody(ParseHeaders(html), ParseRows(html))

\* ---------------------------------------------------------------- upstream responses

Statuses == {200, 404}

\* Every answer taken for a success.
AlwaysOk(status) == TRUE

\* Response.ok
Ok(status) == status \in 200..299

\* What a response body holds: a text that is not JSON, JSON that lacks the
\* property the handler reads, or JSON as expected.
BodyKinds == {"text", "wrongShape", "json"}

\* The Content-Type headers of a response; <<>> when it has none.
ContentTypes ==
    {<<>>, <<"application/json", "; charset=utf-8">>, <<"text/html">>}

\* await response.text()
BodyText(kind) == IF kind = "json" THEN <<"{\"a\":1}">> ELSE <<"<p>oops</p>">>

\* JSON.stringify(await response.json(), null, 2)
PrettyJson == <<"{", "\n", "  \"a\": 1", "\n", "}">>

\* JSON.stringify of a string: the JSON string literal
JsonString(text) == <<"\"">> \o text \o <<"\"">>

Pending == -1
Failed == 0

Request(endpoint, ids) ==
    [endpoint |-> endpoint, ids |-> ids, status |-> Pending, ctype |-> <<>>,
     body |-> "none"]

\* the last request of an invocation, answered
Answered(reqs, status, ctype, body) ==
    [reqs EXCEPT ![Len(reqs)] = [@ EXCEPT !.status = status, !.ctype = ctype,
                                          !.body = body]]

\* ---------------------------------------------------------------- handlers

Tools ==
    IF revision = "part_001"
    THEN {"get-issues-by-state", "getazzureIssuesid", "getIssuesDetailsById",
          "postReportToTeams", "api-request"}
    ELSE {"get-issues-by-state", "getazzureIssuesid", "getIssuesDetailsById",
          "api-request"}

\* The state arguments the client asks for.
StateArgs == {<<"Done">>, <<"To Do">>}

\* The snapshot and the report an earlier run of the server left behind.
EarlierItems == <<Upstream(1), Upstream(2)>>

\* The handler returns a payload with this text.
Return(i, text) ==
    /\ result' = [result EXCEPT ![i] = text]
    /\ pc' = [pc EXCEPT ![i] = "done"]
    /\ UNCHANGED thrown

\* The handler's try block threw: its catch block answered with `caught`.
Fail(i, caught) ==
    /\ result' = [result EXCEPT ![i] = caught.text]
    /\ thrown' = [thrown EXCEPT ![i] = caught.thrown]
    /\ pc' = [pc EXCEPT ![i] = "done"]

Starts(i, t) ==
    /\ tool[i] = "none"
    /\ \A j \in 1..(i - 1) : tool[j] # "none"
    /\ t \in Tools
    /\ tool' = [tool EXCEPT ![i] = t]

\* The client invokes get-issues-by-state: the handler awaits fs.readFile.
InvokeGetIssuesByState(i) ==
    /\ Starts(i, "get-issues-by-state")
    /\ \E s \in StateArgs : arg' = [arg EXCEPT ![i] = s]
    /\ pc' = [pc EXCEPT ![i] = "readFile"]
    /\ UNCHANGED <<revision, snapshotFile, reportFile, fetched, requests, result,
                   thrown, observed, pin, pout>>

\* fs.readFile answers; the handler parses, filters, joins and returns.
ReadSnapshot(i) ==
    /\ tool[i] = "get-issues-by-state" /\ pc[i] = "readFile"
    /\ observed' = [observed EXCEPT ![i] = snapshotFile]
    /\ IF Loads(snapshotFile)
       THEN Return(i, GetIssuesByState(snapshotFile, arg[i]))
       ELSE Fail(i, Catch(LoadError(snapshotFile)))
    /\ UNCHANGED <<revision, snapshotFile, reportFile, tool, arg, fetched, requests,
                   pin, pout>>

\* ---------------------------------------------------------------- getazzureIssuesid

\* What another writer's bytes leave of `old` once `new` is written from offset 0.
Overlay(old, new) == new \o SubSeq(old, Len(new) + 1, Len(old))

\* The client invokes getazzureIssuesid: the handler posts the WIQL query.
InvokeFetch(i) ==
    /\ Starts(i, "getazzureIssuesid")
    /\ requests' = [requests EXCEPT ![i] = <<Request("wiql", <<>>)>>]
    /\ pc' = [pc EXCEPT ![i] = "wiql"]
    /\ UNCHANGED <<revision, snapshotFile, reportFile, arg, fetched, result, thrown,
                   observed, pin, pout>>

\* fetch rejects: the request of invocation i never got a response.
NetworkFails(i) ==
    /\ pc[i] \in {"wiql", "batch", "details", "webhook", "api"}
    /\ requests' = [requests EXCEPT ![i] = Answered(@, Failed, <<>>, "none")]
    /\ Fail(i, IF tool[i] = "api-request" THEN CatchApi(NetworkError)
               ELSE Catch(NetworkError))
    /\ UNCHANGED <<revision, snapshotFile, reportFile, tool, arg, fetched, observed,
                   pin, pout>>

\* if (!response.ok) throw new Error(`${label}${response.status} ${await response.text()}`)
NotOk(i, label, status, body) ==
    Fail(i, Catch(UpstreamError(label, status, BodyText(body)[1])))

\* what response.json() or the read of its property throws
JsonError(body) == IF body = "text" THEN JsonSyntaxError ELSE JsonTypeError

\* a WIQL result that holds an issue all the same
SomeIssues(issueIds) == FALSE

\* if (issueIds.length === 0)
NoIssues(issueIds) == Len(issueIds) = 0

\* The WIQL query is answered.
WiqlResponse(i) ==
    /\ tool[i] = "getazzureIssuesid" /\ pc[i] = "wiql"
    /\ \E status \in Statuses, body \in BodyKinds, issueIds \in IdLists :
          IF ~Ok(status)
          THEN /\ body = "text" /\ issueIds = <<>>
               /\ requests' = [requests EXCEPT ![i] = Answered(@, status, <<>>, body)]
               /\ NotOk(i, "Failed to fetch issue IDs: ", status, body)
          ELSE IF body # "json"
          THEN /\ issueIds = <<>>
               /\ requests' = [requests EXCEPT ![i] = Answered(@, status, <<>>, body)]
               /\ Fail(i, Catch(JsonError(body)))
          ELSE IF NoIssues(issueIds)
          THEN /\ requests' = [requests EXCEPT ![i] = Answered(@, status, <<>>, body)]
               /\ Return(i, <<"No issues found.">>)
          ELSE /\ requests' = [requests EXCEPT ![i] =
                     Append(Answered(@, status, <<>>, body), Request("batch", issueIds))]
               /\ pc' = [pc EXCEPT ![i] = "batch"]
               /\ UNCHANGED <<result, thrown>>
    /\ UNCHANGED <<revision, snapshotFile, reportFile, tool, arg, fetched, observed,
                   pin, pout>>

\* workItemsDetails.value: the items of the ids asked for, in the order asked
BatchValue(ids) == [k \in 1..Len(ids) |-> Upstream(ids[k])]

\* The work-item batch request is answered; the handler calls fs.writeFile, which
\* opens the snapshot file.
BatchResponse(i) ==
    /\ tool[i] = "getazzureIssuesid" /\ pc[i] = "batch"
    /\ \E status \in Statuses, body \in BodyKinds :
          /\ requests' = [requests EXCEPT ![i] = Answered(@, status, <<>>, body)]
          /\ IF ~Ok(status)
             THEN /\ body = "text"
                  /\ NotOk(i, "Failed to fetch issue details: ", status, body)
                  /\ UNCHANGED fetched
             ELSE IF body # "json"
             THEN /\ Fail(i, Catch(JsonError(body)))
                  /\ UNCHANGED fetched
             ELSE /\ fetched' = [fetched EXCEPT ![i] =
                                    BatchValue(requests[i][Len(requests[i])].ids)]
                  /\ pc' = [pc EXCEPT ![i] = "openJson"]
                  /\ UNCHANGED <<result, thrown>>
    /\ UNCHANGED <<revision, snapshotFile, reportFile, tool, arg, observed, pin, pout>>

\* `Successfully fetched ${workItemsDetails.count} issues. Data saved to ...`
FetchedText(items) ==
    IF revision = "part_001"
    THEN <<"Successfully fetched ", ToString(Len(items)), " issues. Data saved to ",
           "src/data/azzureissues.json", " and HTML report generated at ",
           "work_item_report.html", ".">>
    ELSE <<"Successfully fetched ", ToString(Len(items)), " issues. Data saved to ",
           "src/data/azzureissues.json", ".">>

\* fs.writeFile opens the snapshot file with flag "w": the file is truncated.
OpenJson(i) ==
    /\ tool[i] = "getazzureIssuesid" /\ pc[i] = "openJson"
    /\ snapshotFile' = File(<<>>)
    /\ pc' = [pc EXCEPT ![i] = "writeJson"]
    /\ UNCHANGED <<revision, reportFile, tool, arg, fetched, requests, result, thrown,
                   observed, pin, pout>>

\* fs.writeFile writes JSON.stringify(workItemsDetails.value, null, 2) from offset 0
\* and resolves; server.ts returns, part_001 renders the report and opens its file.
WriteJson(i) ==
    /\ tool[i] = "getazzureIssuesid" /\ pc[i] = "writeJson"
    /\ snapshotFile' = File(Overlay(snapshotFile.data, Stringify(fetched[i])))
    /\ IF revision = "part_001"
       THEN /\ pc' = [pc EXCEPT ![i] = "openHtml"]
            /\ UNCHANGED <<result, thrown>>
       ELSE Return(i, FetchedText(fetched[i]))
    /\ UNCHANGED <<revision, reportFile, tool, arg, fetched, requests, observed,
                   pin, pout>>

\* fs.writeFile rejects: the disk or the directory refuses the open or the write.
WriteFails(i) ==
    /\ tool[i] = "getazzureIssuesid"
    /\ pc[i] \in {"openJson", "writeJson", "openHtml", "writeHtml"}
    /\ Fail(i, Catch(EIO(IF pc[i] \in {"openJson", "writeJson"}
                         THEN "src/data/azzureissues.json"
                         ELSE "work_item_report.html")))
    /\ UNCHANGED <<revision, snapshotFile, reportFile, tool, arg, fetched, requests,
                   observed, pin, pout>>

\* fs.writeFile opens the report file with flag "w": the file is truncated.
OpenHtml(i) ==
    /\ tool[i] = "getazzureIssuesid" /\ pc[i] = "openHtml"
    /\ reportFile' = File(<<>>)
    /\ pc' = [pc EXCEPT ![i] = "writeHtml"]
    /\ UNCHANGED <<revision, snapshotFile, tool, arg, fetched, requests, result,
                   thrown, observed, pin, pout>>

\* fs.writeFile writes htmlReport from offset 0 and resolves; the handler returns.
WriteHtml(i) ==
    /\ tool[i] = "getazzureIssuesid" /\ pc[i] = "writeHtml"
    /\ reportFile' = File(Overlay(reportFile.data, RenderHtml(fetched[i])))
    /\ Return(i, FetchedText(fetched[i]))
    /\ UNCHANGED <<revision, snapshotFile, tool, arg, fetched, requests, observed,
                   pin, pout>>

\* ---------------------------------------------------------------- getIssuesDetailsById

\* The snapshot once the details handler has written the items it got.
SavedByDetails(file, items) == File(Stringify(items))

\* What getIssuesDetailsById leaves of the snapshot file: it never writes it.
KeptByDetails(file, items) == file

\* JSON.stringify(workItemsDetails, null, 2): the count and the ids of the items
DetailsText(items) ==
    <<"{ \"count\": ", ToString(Len(items)), ", \"value\": [">>
        \o [k \in 1..Len(items) |-> ToString(items[k].System_Id)]
        \o <<"] }">>

\* The ids the client asks getIssuesDetailsById for: every issue of the project.
IdArgs == {[k \in 1..MaxId |-> k]}

\* The client invokes getIssuesDetailsById: the handler posts the batch request.
InvokeDetails(i) ==
    /\ Starts(i, "getIssuesDetailsById")
    /\ \E ids \in IdArgs : requests' = [requests EXCEPT ![i] = <<Request("batch", ids)>>]
    /\ pc' = [pc EXCEPT ![i] = "details"]
    /\ UNCHANGED <<revision, snapshotFile, reportFile, arg, fetched, result, thrown,
                   observed, pin, pout>>

\* The batch request is answered; the handler returns the JSON it got as text.
DetailsResponse(i) ==
    /\ tool[i] = "getIssuesDetailsById" /\ pc[i] = "details"
    /\ \E status \in Statuses, body \in BodyKinds :
          /\ requests' = [requests EXCEPT ![i] = Answered(@, status, <<>>, body)]
          /\ IF ~Ok(status)
             THEN /\ body = "text"
                  /\ NotOk(i, "Failed to fetch issue details: ", status, body)
                  /\ UNCHANGED snapshotFile
             ELSE IF body = "text"
             THEN /\ Fail(i, Catch(JsonError(body)))
                  /\ UNCHANGED snapshotFile
             ELSE /\ Return(i, IF body = "json"
                               THEN DetailsText(BatchValue(requests[i][1].ids))
                               ELSE PrettyJson)
                  /\ snapshotFile' =
                        KeptByDetails(snapshotFile, BatchValue(requests[i][1].ids))
    /\ UNCHANGED <<revision, reportFile, tool, arg, fetched, observed, pin, pout>>

\* ---------------------------------------------------------------- postReportToTeams

\* new Date() when the card is built
Now == "2024-02-07T15:30:00Z"

\* The client invokes postReportToTeams: the handler awaits fs.readFile.
InvokeTeams(i) ==
    /\ Starts(i, "postReportToTeams")
    /\ pc' = [pc EXCEPT ![i] = "readFile"]
    /\ UNCHANGED <<revision, snapshotFile, reportFile, arg, fetched, requests, result,
                   thrown, observed, pin, pout>>

\* fs.readFile answers; the handler parses the table, builds the card and posts it.
ReadReport(i) ==
    /\ tool[i] = "postReportToTeams" /\ pc[i] = "readFile"
    /\ observed' = [observed EXCEPT ![i] = reportFile]
    /\ IF reportFile.exists
       THEN /\ requests' = [requests EXCEPT ![i] = <<Request("webhook", <<>>)>>]
            /\ pc' = [pc EXCEPT ![i] = "webhook"]
            /\ UNCHANGED <<result, thrown>>
       ELSE /\ Fail(i, Catch(ENOENT("work_item_report.html")))
            /\ UNCHANGED requests
    /\ UNCHANGED <<revision, snapshotFile, reportFile, tool, arg, fetched, pin, pout>>

\* body: [...] of the card invocation i posted
PostedCard(i) == AdaptiveCardBody(observed[i].data, Now)

\* The webhook answers.
TeamsResponse(i) ==
    /\ tool[i] = "postReportToTeams" /\ pc[i] = "webhook"
    /\ \E status \in Statuses, body \in {"text"} :
          /\ requests' = [requests EXCEPT ![i] = Answered(@, status, <<>>, body)]
          /\ IF ~Ok(status)
             THEN NotOk(i, "Failed to post to Teams: ", status, body)
             ELSE Return(i, <<"Report posted to Teams successfully in tabular format.">>)
    /\ UNCHANGED <<revision, snapshotFile, reportFile, tool, arg, fetched, observed,
                   pin, pout>>

\* ---------------------------------------------------------------- api-request

\* contentType.includes("application/json")
IsJson(contentType) == \E k \in 1..Len(contentType) : contentType[k] = "application/json"

\* `Status: ${response.status}\nResponse: ${JSON.stringify(data, null, 2)}`
ApiText(status, data) == <<"Status: ", ToString(status), "\n", "Response: ">> \o data

\* The client invokes api-request: the handler calls fetch.
InvokeApi(i) ==
    /\ Starts(i, "api-request")
    /\ requests' = [requests EXCEPT ![i] = <<Request("url", <<>>)>>]
    /\ pc' = [pc EXCEPT ![i] = "api"]
    /\ UNCHANGED <<revision, snapshotFile, reportFile, arg, fetched, result, thrown,
                   observed, pin, pout>>

\* The endpoint answers; the handler reads the body by its content type and returns.
ApiResponse(i) ==
    /\ tool[i] = "api-request" /\ pc[i] = "api"
    /\ \E status \in Statuses, contentType \in ContentTypes,
          body \in {"text", "json"} :
          /\ requests' = [requests EXCEPT ![i] = Answered(@, status, contentType, body)]
          /\ IF ~IsJson(contentType)
             THEN Return(i, ApiText(status, JsonString(BodyText(body))))
             ELSE IF body = "json" THEN Return(i, ApiText(status, PrettyJson))
             ELSE Fail(i, CatchApi(JsonSyntaxError))
    /\ UNCHANGED <<revision, snapshotFile, reportFile, tool, arg, fetched, observed,
                   pin, pout>>

\* ---------------------------------------------------------------- the server

Idle == [i \in Invocations |-> "none"]

NotApplied == [applied |-> FALSE, value |-> <<>>]
Applied(value) == [applied |-> TRUE, value |-> value]

Init ==
    /\ revision \in {"server.ts", "part_001"}
    /\ \/ snapshotFile = NoFile /\ reportFile = NoFile
       \/ /\ snapshotFile = File(Stringify(EarlierItems))
          /\ reportFile = File(RenderHtml(EarlierItems))
    /\ tool = Idle
    /\ pc = Idle
    /\ arg = [i \in Invocations |-> <<>>]
    /\ fetched = [i \in Invocations |-> <<>>]
    /\ requests = [i \in Invocations |-> <<>>]
    /\ result = [i \in Invocations |-> <<>>]
    /\ thrown = [i \in Invocations |-> FALSE]
    /\ observed = [i \in Invocations |-> NoFile]
    /\ pin = <<>>
    /\ pout = NotApplied

Next ==
    \E i \in Invocations :
        \/ InvokeGetIssuesByState(i)
        \/ ReadSnapshot(i)
        \/ InvokeFetch(i)
        \/ WiqlResponse(i)
        \/ BatchResponse(i)
        \/ OpenJson(i)
        \/ WriteJson(i)
        \/ OpenHtml(i)
        \/ WriteHtml(i)
        \/ WriteFails(i)
        \/ InvokeDetails(i)
        \/ DetailsResponse(i)
        \/ InvokeTeams(i)
        \/ ReadReport(i)
        \/ TeamsResponse(i)
        \/ InvokeApi(i)
        \/ ApiResponse(i)
        \/ NetworkFails(i)

Spec == Init /\ [][Next]_vars

\* ---------------------------------------------------------------- the functions alone

\* No handler runs: the files are absent and every invocation is idle.
NoServer ==
    /\ revision = "part_001"
    /\ snapshotFile = NoFile /\ reportFile = NoFile
    /\ tool = Idle /\ pc = Idle
    /\ arg = [i \in Invocations |-> <<>>]
    /\ fetched = [i \in Invocations |-> <<>>]
    /\ requests = [i \in Invocations |-> <<>>]
    /\ result = [i \in Invocations |-> <<>>]
    /\ thrown = [i \in Invocations |-> FALSE]
    /\ observed = [i \in Invocations |-> NoFile]

server == <<revision, snapshotFile, reportFile, tool, pc, arg, fetched, requests,
            result, thrown, observed>>

\* The states a snapshot item or a state argument can carry: they differ in case
\* and in trailing whitespace only.
FilterStates == {<<"Done">>, <<"done">>, <<"Done", " ">>}

FilterItems ==
    {WorkItem(1, title, state, Nobody, "", "", <<>>) :
        title \in {<<"Foo">>, <<"Bar">>}, state \in FilterStates}

InitFilter ==
    /\ NoServer
    /\ pin \in [snapshot : SeqsUpTo(FilterItems, MaxSnapshot), state : FilterStates]
    /\ pout = NotApplied

\* get-issues-by-state(pin.state) against a snapshot file holding pin.snapshot
ApplyFilter ==
    /\ ~pout.applied
    /\ pout' = Applied(GetIssuesByState(File(Stringify(pin.snapshot)), pin.state))
    /\ UNCHANGED <<server, pin>>

SpecFilter == InitFilter /\ [][ApplyFilter]_vars

\* The raw texts of the cells of a report: empty, plain, padded with whitespace.
RawTexts == {<<>>, <<"x">>, <<" ", "y", "\n">>}

RawRows == SeqsOfLen(RawTexts, 1) \cup SeqsOfLen(RawTexts, 2)

\* An HTML document with one table: a row of th cells, then rows of td cells.
HtmlTable(headers, rows) ==
    <<"<html>", "<table>", "<tr>">>
        \o Flatten([k \in 1..Len(headers) |-> <<"<th>">> \o headers[k] \o <<"</th>">>])
        \o <<"</tr>">>
        \o Flatten([r \in 1..Len(rows) |->
              <<"\n", "<tr>">>
                  \o Flatten([k \in 1..Len(rows[r]) |->
                                 <<"<td>">> \o rows[r][k] \o <<"</td>">>])
                  \o <<"</tr>">>])
        \o <<"</table>", "</html>">>

InitCard ==
    /\ NoServer
    /\ pin \in [headers : RawRows, rows : SeqsUpTo(RawRows, MaxRows)]
    /\ pout = NotApplied

\* postReportToTeams builds the card of a report holding the table of pin
ApplyCard ==
    /\ ~pout.applied
    /\ pout' = Applied(AdaptiveCardBody(HtmlTable(pin.headers, pin.rows), Now))
    /\ UNCHANGED <<server, pin>>

SpecCard == InitCard /\ [][ApplyCard]_vars

\* The work items a batch response can hold.
RoundTripItems == {Upstream(id) : id \in 1..(MaxId + 2)}

InitRoundTrip ==
    /\ NoServer
    /\ pin \in SeqsUpTo(RoundTripItems, MaxSnapshot)
    /\ pout = NotApplied

\* the table parser of postReportToTeams on the report getazzureIssuesid renders
ApplyRoundTrip ==
    /\ ~pout.applied
    /\ pout' = Applied([headers |-> ParseHeaders(RenderHtml(pin)),
                        rows |-> ParseRows(RenderHtml(pin))])
    /\ UNCHANGED <<server, pin>>

SpecRoundTrip == InitRoundTrip /\ [][ApplyRoundTrip]_vars

\* ---------------------------------------------------------------- claims

OtherTools ==
    {"get-issues-by-state", "getIssuesDetailsById", "postReportToTeams", "api-request"}

FailureTexts == {"Operation failed: ", "API request failed: "}

\* The awaits of each handler: a promise that settles, and a step of the handler
\* for both ways it settles.
Awaits ==
    {<<"get-issues-by-state", "readFile">>, <<"getazzureIssuesid", "wiql">>,
     <<"getazzureIssuesid", "batch">>, <<"getazzureIssuesid", "openJson">>,
     <<"getazzureIssuesid", "writeJson">>, <<"getazzureIssuesid", "openHtml">>,
     <<"getazzureIssuesid", "writeHtml">>, <<"getIssuesDetailsById", "details">>,
     <<"postReportToTeams", "readFile">>, <<"postReportToTeams", "webhook">>,
     <<"api-request", "api">>}

\* a step of invocation i failed: a request got no response or a non-2xx one, or
\* the file it read was missing or malformed
StepFailed(i) ==
    \/ \E k \in 1..Len(requests[i]) :
          requests[i][k].status = Failed
          \/ (requests[i][k].status # Pending /\ requests[i][k].status \notin 200..299)
    \/ /\ tool[i] = "get-issues-by-state" /\ pc[i] = "done"
       /\ ~(observed[i].exists /\ IsJsonArray(observed[i].data))
    \/ tool[i] = "postReportToTeams" /\ pc[i] = "done" /\ ~observed[i].exists

\* C1: no failure of any step escapes a handler as a thrown error or leaves the
\* invocation without a result: no handler throws, a suspended invocation is at an
\* await of its handler, a finished one returned a text, and a text that begins with
\* the failure prefix of its catch block and carries a message when one of its steps
\* failed.
C1_EveryFailureIsAnswered ==
    \A i \in Invocations :
        /\ ~thrown[i]
        /\ pc[i] \notin {"none", "done"} => <<tool[i], pc[i]>> \in Awaits
        /\ pc[i] = "done" => result[i] # <<>>
        /\ (pc[i] = "done" /\ StepFailed(i) /\ tool[i] # "api-request") =>
              (Len(result[i]) >= 2 /\ result[i][1] = "Operation failed: ")
        /\ (pc[i] = "done" /\ tool[i] = "api-request" /\ requests[i][1].status = Failed) =>
              (Len(result[i]) >= 2 /\ result[i][1] = "API request failed: ")

\* C1 witness: postReportToTeams found no report file, getazzureIssuesid got a
\* non-2xx answer to its batch request, and both returned their failure text.
C1_Witness ==
    \E i, j \in Invocations :
        /\ tool[i] = "postReportToTeams" /\ pc[i] = "done" /\ ~observed[i].exists
        /\ result[i][1] = "Operation failed: "
        /\ tool[j] = "getazzureIssuesid" /\ pc[j] = "done" /\ Len(requests[j]) = 2
        /\ requests[j][2].status = 404
        /\ result[j][1] = "Operation failed: "

Contains(text, token) == \E k \in 1..Len(text) : text[k] = token

\* C2: for every non-2xx upstream response, the text the tool returns contains the
\* numeric status code of that response.
C2_NonOkTextCarriesStatus ==
    \A i \in Invocations :
        pc[i] = "done" =>
            \A k \in 1..Len(requests[i]) :
                LET r == requests[i][k]
                IN  (r.status \notin {Pending, Failed} /\ r.status \notin 200..299)
                    => Contains(result[i], ToString(r.status))

\* the indices of the snapshot items whose state is exactly the state asked for
Matching(snapshot, state) ==
    {k \in 1..Len(snapshot) : snapshot[k].System_State = state}

\* the n-th smallest element of a set of numbers
Nth(S, n) == CHOOSE m \in S : Cardinality({j \in S : j < m}) = n - 1

\* the lines of a text: the runs of tokens between its "\n" tokens
RECURSIVE Lines(_)
Lines(text) ==
    IF \A k \in 1..Len(text) : text[k] # "\n" THEN <<text>>
    ELSE LET k == CHOOSE n \in 1..Len(text) :
                      text[n] = "\n" /\ \A m \in 1..(n - 1) : text[m] # "\n"
         IN  <<SubSeq(text, 1, k - 1)>> \o Lines(SubSeq(text, k + 1, Len(text)))

\* C3: against a well-formed snapshot, get-issues-by-state(s) returns the heading
\* and then one line per item whose System.State equals s exactly, in snapshot
\* order, each line "- " and the item's title: no line for any other item.
C3_ListingIsExactFilter ==
    pout.applied =>
        LET snapshot == pin.snapshot
            M == Matching(snapshot, pin.state)
            lines == Lines(pout.value)
            listed == IF M = {} THEN <<>> ELSE Tail(lines)
        IN  /\ lines[1] = <<"Issues in state \"">> \o pin.state \o <<"\":">>
            /\ M = {} => lines = <<lines[1], <<>>>>
            /\ Len(listed) = Cardinality(M)
            /\ \A n \in 1..Len(listed) :
                  listed[n] = <<"- ">> \o snapshot[Nth(M, n)].System_Title

\* C3 witness: a listing of two items out of three, the third differing from the
\* state asked for by a trailing blank only.
C3_Witness ==
    /\ pout.applied
    /\ pin.state = <<"Done">>
    /\ Len(pin.snapshot) = 3
    /\ pin.snapshot[1].System_State = <<"Done">>
    /\ pin.snapshot[2].System_State = <<"Done", " ">>
    /\ pin.snapshot[3].System_State = <<"Done">>
    /\ pin.snapshot[1].System_Title # pin.snapshot[3].System_Title
    /\ Len(Lines(pout.value)) = 3

NoFailure(text) == text # <<>> /\ text[1] \notin FailureTexts

\* C4: when a getazzureIssuesid invocation returns without reporting a failure, the
\* snapshot file (when there is one) holds exactly the work-item array that
\* invocation obtained: no item of an earlier snapshot is retained.
C4_FetchOverwritesSnapshot ==
    [][\A i \in Invocations :
          (tool[i] = "getazzureIssuesid" /\ pc[i] # "done" /\ pc'[i] = "done"
              /\ NoFailure(result'[i]) /\ snapshotFile'.exists)
          => snapshotFile' = File(Stringify(fetched'[i]))]_vars

\* C5: a step of get-issues-by-state, getIssuesDetailsById, postReportToTeams or
\* api-request, its invocation included, leaves the snapshot file and the HTML
\* report file as they were.
C5_OnlyFetchWrites ==
    [][\A i \in Invocations :
          (tool'[i] \in OtherTools /\ (tool'[i] # tool[i] \/ pc'[i] # pc[i]))
          => (snapshotFile' = snapshotFile /\ reportFile' = reportFile)]_vars

\* C5 witness: getIssuesDetailsById returned the details of items while a snapshot
\* of other contents was on disk.
C5_Witness ==
    \E i \in Invocations :
        /\ tool[i] = "getIssuesDetailsById" /\ pc[i] = "done"
        /\ NoFailure(result[i])
        /\ snapshotFile.exists
        /\ snapshotFile.data # Stringify(BatchValue(requests[i][1].ids))

\* the arrays whose write by a fetch has begun, and the one found at start
Written ==
    {fetched[j] : j \in {i \in Invocations :
                            tool[i] = "getazzureIssuesid"
                            /\ pc[i] \in {"writeJson", "openHtml", "writeHtml", "done"}
                            /\ fetched[i] # <<>>}}
        \cup {EarlierItems}

\* C6: every read of get-issues-by-state that finds the snapshot file observes the
\* complete array of one snapshot write, never a part of one or a mixture of two.
C6_ReadsSeeWholeSnapshots ==
    \A i \in Invocations :
        (tool[i] = "get-issues-by-state" /\ pc[i] = "done" /\ observed[i].exists)
        => \E items \in Written : observed[i].data = Stringify(items)

\* C7: an invocation issues at most two requests; a second one is the batch request
\* of getazzureIssuesid, issued after the WIQL query got a 2xx response; a request
\* that failed or got a non-2xx response is the invocation's last, and the
\* invocation has ended.
C7_AtMostTwoDependentRequests ==
    \A i \in Invocations :
        LET r == requests[i]
        IN  /\ Len(r) <= 2
            /\ Len(r) = 2 =>
                  /\ tool[i] = "getazzureIssuesid"
                  /\ r[1].endpoint = "wiql" /\ r[1].status \in 200..299
                  /\ r[2].endpoint = "batch"
            /\ \A k \in 1..Len(r) :
                  (r[k].status # Pending /\ r[k].status \notin 200..299)
                  => (k = Len(r) /\ pc[i] = "done")
            /\ \A k \in 1..Len(r) : r[k].status = Pending => k = Len(r) /\ pc[i] # "done"

\* C7 witness: a fetch whose WIQL query got 200 and whose batch request got 404 has
\* ended with two requests issued.
C7_Witness ==
    \E i \in Invocations :
        /\ pc[i] = "done" /\ Len(requests[i]) = 2
        /\ requests[i][1].status = 200 /\ requests[i][2].status = 404

\* a text without the whitespace before its first and after its last other token
Stripped(text) ==
    LET inked == {k \in 1..Len(text) : text[k] \notin {" ", "\n"}}
    IN  IF inked = {} THEN <<>>
        ELSE SubSeq(text, CHOOSE a \in inked : \A b \in inked : a <= b,
                          CHOOSE a \in inked : \A b \in inked : a >= b)

\* C8: the card body is one title block, one timestamp subtitle, then 1 + n
\* column-sets in table order: the first has one column per header cell, its text
\* the trimmed header between bold markers; the k-th of the others has one column
\* per cell of the k-th data row, its text the trimmed cell text, or "-" when the
\* trimmed cell is empty.
C8_CardMirrorsTable ==
    pout.applied =>
        LET card == pout.value
            headers == pin.headers
            rows == pin.rows
        IN  /\ Len(card) = 3 + Len(rows)
            /\ card[1].type = "TextBlock"
            /\ card[1].text = <<"Azure DevOps Work Item Report">>
            /\ card[2].type = "TextBlock"
            /\ Len(card[2].text) = 2 /\ card[2].text[1] = "Generated on "
            /\ card[3].type = "ColumnSet"
            /\ Len(card[3].columns) = Len(headers)
            /\ \A k \in 1..Len(headers) :
                  card[3].columns[k] = <<"**">> \o Stripped(headers[k]) \o <<"**">>
            /\ \A r \in 1..Len(rows) :
                  /\ card[3 + r].type = "ColumnSet"
                  /\ Len(card[3 + r].columns) = Len(rows[r])
                  /\ \A k \in 1..Len(rows[r]) :
                        card[3 + r].columns[k] =
                            (IF Stripped(rows[r][k]) = <<>> THEN <<"-">>
                             ELSE Stripped(rows[r][k]))

\* C8 witness: the card of a report of two data rows of different widths, one cell
\* empty and one padded with whitespace.
C8_Witness ==
    /\ pout.applied
    /\ Len(pin.headers) = 2
    /\ Len(pin.rows) = 2
    /\ pin.rows[1] = << <<>>, <<" ", "y", "\n">> >>
    /\ pin.rows[2] = << <<"x">> >>
    /\ pout.value[4].columns = << <<"-">>, <<"y">> >>

\* C9: parsing the report rendered from a work-item array gives the seven headers
\* and one row per item, in item order, whose cells are the item's id, title,
\* state, assignee display name or "Unassigned", a created date, a changed date
\* and the tags.
C9_ReportRoundTrips ==
    pout.applied =>
        /\ pout.value.headers =
              << <<"ID">>, <<"Title">>, <<"State">>, <<"Assigned To">>,
                 <<"Created Date">>, <<"Changed Date">>, <<"Tags">> >>
        /\ Len(pout.value.rows) = Len(pin)
        /\ \A k \in 1..Len(pin) :
              LET row == pout.value.rows[k]
                  item == pin[k]
              IN  /\ Len(row) = 7
                  /\ row[1] = <<ToString(item.System_Id)>>
                  /\ row[2] = item.System_Title
                  /\ row[3] = item.System_State
                  /\ row[4] = (IF item.System_AssignedTo.present
                               THEN item.System_AssignedTo.displayName
                               ELSE <<"Unassigned">>)
                  /\ Len(row[5]) = 1 /\ Len(row[6]) = 1
                  /\ row[7] = item.System_Tags

\* C10: the text of an api-request whose call completed carries the status of the
\* response, and after "Response: " the parsed JSON
\* when the Content-Type contains application/json, the raw text (as a JSON string)
\* otherwise.
C10_ApiTextCarriesStatusAndBody ==
    \A i \in Invocations :
        (tool[i] = "api-request" /\ pc[i] = "done" /\ requests[i][1].status # Failed)
        => LET r == requests[i][1]
               typedJson == \E k \in 1..Len(r.ctype) : r.ctype[k] = "application/json"
               response == SubSeq(result[i], 5, Len(result[i]))
           IN  /\ Len(result[i]) >= 4
               /\ SubSeq(result[i], 1, 4) =
                     <<"Status: ", ToString(r.status), "\n", "Response: ">>
               /\ (typedJson /\ r.body = "json") => response = PrettyJson
               /\ ~typedJson => response = <<"\"">> \o BodyText(r.body) \o <<"\"">>

\* the snapshot and the report as the server found them when it started
FilesAtStart ==
    {<<NoFile, NoFile>>,
     <<File(Stringify(EarlierItems)), File(RenderHtml(EarlierItems))>>}

\* invocation i is the only getazzureIssuesid invocation so far
OnlyFetch(i) ==
    /\ tool[i] = "getazzureIssuesid"
    /\ \A j \in Invocations \ {i} : tool[j] # "getazzureIssuesid"

\* C11: when the only getazzureIssuesid invocation so far has returned an
\* "Operation failed" message, the snapshot file and the HTML report file hold the
\* contents they held before it started (no other tool writes them).
C11_FailedFetchLeavesFiles ==
    \A i \in Invocations :
        (OnlyFetch(i) /\ pc[i] = "done" /\ result[i] # <<>>
            /\ result[i][1] = "Operation failed: ")
        => <<snapshotFile, reportFile>> \in FilesAtStart

\* every invocation was a getazzureIssuesid that returned its success text
AllFetched ==
    \A i \in Invocations :
        /\ tool[i] = "getazzureIssuesid" /\ pc[i] = "done"
        /\ fetched[i] # <<>>
        /\ result[i] = FetchedText(fetched[i])

\* C12: once overlapping getazzureIssuesid invocations have all returned success,
\* the snapshot file and the HTML report file were written by the same invocation:
\* the snapshot is that invocation's array and the report its rendering.
C12_FilesFromOneFetch ==
    (revision = "part_001" /\ AllFetched)
    => \E i \in Invocations :
          /\ snapshotFile = File(Stringify(fetched[i]))
          /\ reportFile = File(RenderHtml(fetched[i]))

\* the listing get-issues-by-state gives of the items found at start
ListingAtStart(state) ==
    LET M == Matching(EarlierItems, state)
    IN  ListingHeader(state)
            \o Join([n \in 1..Cardinality(M) |->
                        <<"- ">> \o EarlierItems[Nth(M, n)].System_Title], "\n")

\* C13: getazzureIssuesid never issues a batch request for an empty list of ids;
\* when the only getazzureIssuesid invocation so far returned "No issues found.",
\* its WIQL query was its only request, the snapshot and the report are as they were
\* at start, and every get-issues-by-state that has returned against a snapshot
\* lists the items of that earlier snapshot.
C13_EmptyResultTouchesNothing ==
    \A i \in Invocations :
        /\ \A k \in 1..Len(requests[i]) :
              requests[i][k].endpoint = "batch" => requests[i][k].ids # <<>>
        /\ (OnlyFetch(i) /\ pc[i] = "done" /\ result[i] = <<"No issues found.">>)
           => /\ Len(requests[i]) = 1
              /\ requests[i][1].endpoint = "wiql" /\ requests[i][1].status \in 200..299
              /\ <<snapshotFile, reportFile>> \in FilesAtStart
              /\ \A j \in Invocations :
                    (tool[j] = "get-issues-by-state" /\ pc[j] = "done"
                        /\ snapshotFile.exists)
                    => result[j] = ListingAtStart(arg[j])

\* C13 witness: the fetch found no issue and returned after its one request, and
\* get-issues-by-state listed "Foo", the Done item of the earlier snapshot.
C13_Witness ==
    /\ tool[1] = "getazzureIssuesid" /\ tool[2] = "get-issues-by-state"
    /\ pc[1] = "done" /\ pc[2] = "done"
    /\ result[1] = <<"No issues found.">>
    /\ Len(requests[1]) = 1
    /\ arg[2] = <<"Done">>
    /\ result[2] = ListingHeader(<<"Done">>) \o <<"- ", "Foo">>
    /\ snapshotFile = File(Stringify(EarlierItems))

====
